---- MODULE Spec2Model ----
(***************************************************************************)
(* Model of Standardix/Le-Club, src/suppliers/fournisseur_abc.py: the      *)
(* supplier-sheet to Shopify-import transformation (run_transform) and the *)
(* pure helpers it calls.                                                  *)
(*                                                                         *)
(* Values.  Python strings are TLA+ strings (Len, SubSeq and \o apply to   *)
(* them).  A pandas cell is a tagged record: NaN for an empty cell (a      *)
(* float nan under read_excel(dtype=str)), Str(s) for a text cell, and a   *)
(* parsed price is NaN, Inf or Num(c) with c in integer cents.             *)
(***************************************************************************)
EXTENDS Integers, Sequences, FiniteSets, TLC

VARIABLES pc, arg, ret, supplier, help, lookups, df, idx, warnings, outcome

vars == <<pc, arg, ret, supplier, help, lookups, df, idx, warnings, outcome>>

(***************************************************************************)
(* Values                                                                  *)
(***************************************************************************)
NaN == [t |-> "nan"]
Inf == [t |-> "inf"]
Str(s) == [t |-> "str", s |-> s]
Num(c) == [t |-> "num", cents |-> c]
IsNaN(x) == x.t = "nan"
IsStr(x) == x.t = "str"
IsNum(x) == x.t = "num"

(***************************************************************************)
(* Python str primitives                                                   *)
(***************************************************************************)
Char(s, i) == SubSeq(s, i, i)

DigitChars == {"0", "1", "2", "3", "4", "5", "6", "7", "8", "9"}

UpperChars == "ABCDEFGHIJKLMNOPQRSTUVWXYZ"

LowerChars == "abcdefghijklmnopqrstuvwxyz"

AllDigits(s) == \A i \in 1..Len(s) : Char(s, i) \in DigitChars

\* str.strip(): the only whitespace of the modelled inputs is the space.
RECURSIVE LStrip(_)
LStrip(s) == IF Len(s) > 0 /\ Char(s, 1) = " " THEN LStrip(SubSeq(s, 2, Len(s))) ELSE s

RECURSIVE RStrip(_)
RStrip(s) == IF Len(s) > 0 /\ Char(s, Len(s)) = " " THEN RStrip(SubSeq(s, 1, Len(s) - 1)) ELSE s

Strip(s) == RStrip(LStrip(s))

LowerChar(c) ==
    IF \E k \in 1..26 : Char(UpperChars, k) = c
    THEN Char(LowerChars, CHOOSE k \in 1..26 : Char(UpperChars, k) = c)
    ELSE c

\* str.lower()
RECURSIVE Lower(_)
Lower(s) == IF s = "" THEN "" ELSE LowerChar(Char(s, 1)) \o Lower(SubSeq(s, 2, Len(s)))

UpperChar(c) ==
    IF \E k \in 1..26 : Char(LowerChars, k) = c
    THEN Char(UpperChars, CHOOSE k \in 1..26 : Char(LowerChars, k) = c)
    ELSE c

RECURSIVE Upper(_)
Upper(s) == IF s = "" THEN "" ELSE UpperChar(Char(s, 1)) \o Upper(SubSeq(s, 2, Len(s)))

\* str(x) of a cell: str(float("nan")) is "nan".
PyStr(x) == IF IsNaN(x) THEN "nan" ELSE x.s

\* "x is None or (isinstance(x, float) and math.isnan(x))"
IsMissing(x) == IsNaN(x)

(***************************************************************************)
(* BARCODE: _clean_barcode_keep_leading_zeros                              *)
(***************************************************************************)
UPC_A_LEN == 12

\* str.zfill(width) of an all-digit string
RECURSIVE ZFill(_, _)
ZFill(s, width) == IF Len(s) >= width THEN s ELSE ZFill("0" \o s, width)

\* re.fullmatch(r"\d+\.0", s)
MatchDigitsDotZero(s) ==
    /\ Len(s) >= 3
    /\ SubSeq(s, Len(s) - 1, Len(s)) = ".0"
    /\ AllDigits(SubSeq(s, 1, Len(s) - 2))

\* re.fullmatch(r"\d+", s)
MatchDigits(s) == Len(s) >= 1 /\ AllDigits(s)

\* s.zfill(12) without the "len(s) <= 12" guard: a plausible slip that cuts
\* long codes to their first 12 digits.
PadOrCutDigits(s) == IF Len(s) <= UPC_A_LEN THEN ZFill(s, UPC_A_LEN) ELSE SubSeq(s, 1, UPC_A_LEN)

PadDigits(s) == IF Len(s) <= UPC_A_LEN THEN ZFill(s, UPC_A_LEN) ELSE s

clean_barcode_keep_leading_zeros(x) ==
    IF IsMissing(x) THEN ""
    ELSE LET s0 == Strip(PyStr(x))
             s1 == IF MatchDigitsDotZero(s0) THEN SubSeq(s0, 1, Len(s0) - 2) ELSE s0
         IN  IF s0 = "" THEN ""
             ELSE IF MatchDigits(s1) THEN PadDigits(s1)
             ELSE s1

(***************************************************************************)
(* Barcode inputs: digit runs of every length up to MaxDigits, with and    *)
(* without ".0"/letter suffixes and surrounding blanks                     *)
(***************************************************************************)
MaxDigits == 14

DigitSource == "0012345678901234567890"

DigitRuns == {SubSeq(DigitSource, a, a + n - 1) : a \in 1..3, n \in 0..MaxDigits}

BarcodeSuffixes == {"", ".0", ".00", ".0.0", "A", ".", " 0"}

BarcodeInputs ==
    {NaN} \cup
    {Str(l \o d \o s \o r) : l \in {"", " "}, d \in DigitRuns, s \in BarcodeSuffixes, r \in {"", "  "}}

(***************************************************************************)
(* Idle values of the variables a specification does not use               *)
(***************************************************************************)
Idle == <<>>

PipelineIdle ==
    /\ supplier = Idle
    /\ help = Idle
    /\ lookups = Idle
    /\ df = Idle
    /\ idx = 0
    /\ warnings = Idle
    /\ outcome = Idle

PipelineUnchanged == UNCHANGED <<supplier, help, lookups, df, idx, warnings, outcome>>

(***************************************************************************)
(* SpecBarcode: the barcode normalizer applied to an input, then to its    *)
(* own result.                                                             *)
(***************************************************************************)
InitBarcode ==
    /\ pc = "call"
    /\ arg \in BarcodeInputs
    /\ ret = <<>>
    /\ PipelineIdle

CallBarcode ==
    /\ pc = "call"
    /\ ret' = <<clean_barcode_keep_leading_zeros(arg)>>
    /\ pc' = "returned"
    /\ UNCHANGED arg
    /\ PipelineUnchanged

RecallBarcode ==
    /\ pc = "returned"
    /\ ret' = Append(ret, clean_barcode_keep_leading_zeros(Str(ret[1])))
    /\ pc' = "recalled"
    /\ UNCHANGED arg
    /\ PipelineUnchanged

NextBarcode == CallBarcode \/ RecallBarcode

SpecBarcode == InitBarcode /\ [][NextBarcode]_vars

IsSuffix(d, s) == Len(d) <= Len(s) /\ SubSeq(s, Len(s) - Len(d) + 1, Len(s)) = d

\* The digit string of a numeric code: the trimmed value, less one trailing ".0".
BarcodeDigits(x) ==
    LET s == Strip(PyStr(x))
    IN  IF MatchDigitsDotZero(s) THEN SubSeq(s, 1, Len(s) - 2) ELSE s

BarcodeIsNumeric(x) == ~IsNaN(x) /\ MatchDigits(BarcodeDigits(x))

\* C6: a null or blank value gives ""; a numeric code of n digits gives the
\* digits left-padded with zeros to exactly 12 characters when n <= 12 and
\* unchanged when n > 12, the digits always being a suffix of the result and
\* everything before them zeros; any other value is returned trimmed; and
\* the function applied to its own result returns that result.
C6_BarcodeKeepsDigits ==
    pc \in {"returned", "recalled"} =>
        LET r == ret[1]
            d == BarcodeDigits(arg)
        IN  /\ (IsNaN(arg) \/ Strip(PyStr(arg)) = "") => r = ""
            /\ BarcodeIsNumeric(arg) =>
                  /\ IsSuffix(d, r)
                  /\ Len(r) = IF Len(d) <= 12 THEN 12 ELSE Len(d)
                  /\ \A k \in 1..(Len(r) - Len(d)) : Char(r, k) = "0"
            /\ (~IsNaN(arg) /\ Strip(PyStr(arg)) # "" /\ ~BarcodeIsNumeric(arg)) =>
                  r = Strip(arg.s)
            /\ pc = "recalled" => ret[2] = r

\* A 13-digit code with a ".0" artifact was normalized and re-applied.
C6_Witness ==
    /\ pc = "recalled"
    /\ BarcodeIsNumeric(arg)
    /\ Len(BarcodeDigits(arg)) > 12
    /\ MatchDigitsDotZero(Strip(arg.s))

(***************************************************************************)
(* PRICE: _round_to_nearest_9_99 (prices in integer cents)                 *)
(***************************************************************************)
Raise(exc) == [t |-> "raise", exc |-> exc]

\* floor(p / 10 + 0.5) without the half: rounds every price down to the ten
\* below it.
FloorTens(c) == (c \div 1000) * 1000

\* math.floor(p / 10.0 + 0.5) * 10.0, in cents (\div is the floor division)
HalfUpTens(c) == ((c + 500) \div 1000) * 1000

\* math.floor(float("inf")) raises OverflowError.
round_to_nearest_9_99(price) ==
    IF IsMissing(price) THEN NaN
    ELSE IF price = Inf THEN Raise("OverflowError")
    ELSE Num(HalfUpTens(price.cents) - 1)

MaxCents == 5000

PriceInputs == {NaN, Inf} \cup {Num(c) : c \in (0 - MaxCents)..MaxCents}

InitPrice ==
    /\ pc = "call"
    /\ arg \in PriceInputs
    /\ ret = <<>>
    /\ PipelineIdle

CallPrice ==
    /\ pc = "call"
    /\ ret' = <<round_to_nearest_9_99(arg)>>
    /\ pc' = "returned"
    /\ UNCHANGED arg
    /\ PipelineUnchanged

NextPrice == CallPrice

SpecPrice == InitPrice /\ [][NextPrice]_vars

Abs(n) == IF n < 0 THEN 0 - n ELSE n

\* C7: for a price of c cents the result plus one cent is a multiple of
\* 10.00, no other multiple of 10.00 is nearer to c, a price exactly halfway
\* between two multiples goes to the upper one, and a missing price gives a
\* missing result.
C7_NearestTenMinusCent ==
    pc = "returned" =>
        /\ IsNaN(arg) => ret[1] = NaN
        /\ IsNum(arg) =>
              /\ IsNum(ret[1])
              /\ LET c == arg.cents
                     m == ret[1].cents + 1
                 IN  /\ m % 1000 = 0
                     /\ Abs(m - c) <= 500
                     /\ (c % 1000 = 500) => m = c + 500

\* 45.00, exactly halfway between 40 and 50, was rounded to 49.99.
C7_Witness == pc = "returned" /\ arg = Num(4500) /\ ret[1] = Num(4999)

(***************************************************************************)
(* FALLBACK COLOR / SIZE: _extract_color_size                              *)
(***************************************************************************)
SepChars == {"-", ",", "/"}

\* re.split(r"\s*[-,/]\s*|\s*,\s*", text) followed by
\* [p.strip() for p in parts if p and p.strip()]: the text is cut at every
\* '-', ',' and '/', each piece is trimmed and the empty pieces are dropped
\* (the blanks the pattern eats around a separator are the ones strip()
\* removes anyway).
RECURSIVE SplitParts(_, _)
SplitParts(s, cur) ==
    IF s = "" THEN (IF Strip(cur) = "" THEN <<>> ELSE <<Strip(cur)>>)
    ELSE IF Char(s, 1) \in SepChars
         THEN (IF Strip(cur) = "" THEN <<>> ELSE <<Strip(cur)>>) \o SplitParts(SubSeq(s, 2, Len(s)), "")
         ELSE SplitParts(SubSeq(s, 2, Len(s)), cur \o Char(s, 1))

\* \d{1,2}([./-]\d{1,2})?
MatchNumericSize(t) ==
    \E n \in 1..2 :
        /\ Len(t) >= n
        /\ AllDigits(SubSeq(t, 1, n))
        /\ \/ Len(t) = n
           \/ /\ Len(t) \in (n + 2)..(n + 3)
              /\ Char(t, n + 1) \in {".", "/", "-"}
              /\ AllDigits(SubSeq(t, n + 2, Len(t)))

\* X{0,3}S|X{0,3}L|S|M|L|XL|XXL|XXXL under re.IGNORECASE
MatchLetterSize(t) ==
    Upper(t) \in {"S", "XS", "XXS", "XXXS", "L", "XL", "XXL", "XXXL", "M"}

\* re.fullmatch(r"(X{0,3}S|X{0,3}L|S|M|L|XL|XXL|XXXL|\d{1,2}([./-]\d{1,2})?)", last, re.IGNORECASE)
IsSizeToken(t) == MatchLetterSize(t) \/ MatchNumericSize(t)

\* "if not description": an empty str is falsy, a float nan is truthy.
extract_color_size(description) ==
    IF IsStr(description) /\ description.s = "" THEN <<"", "">>
    ELSE LET parts == SplitParts(Strip(PyStr(description)), "")
             n == Len(parts)
         IN  IF n >= 2
             THEN IF IsSizeToken(parts[n]) THEN <<parts[n - 1], parts[n]>>
                  ELSE <<parts[n], "">>
             ELSE <<"", "">>

MaxPieces == 4

Pieces == {"Pants", "Blue", "xl", "32", "34", "7.5", " "}

Separators == {" - ", "/", ", "}

RECURSIVE Descriptions(_)
Descriptions(n) ==
    IF n = 1 THEN Pieces
    ELSE Descriptions(n - 1) \cup
         {d \o sep \o p : d \in Descriptions(n - 1), sep \in Separators, p \in Pieces}

ExtractInputs == {NaN, Str("")} \cup {Str(d) : d \in Descriptions(MaxPieces)}

InitExtract ==
    /\ pc = "call"
    /\ arg \in ExtractInputs
    /\ ret = <<>>
    /\ PipelineIdle

CallExtract ==
    /\ pc = "call"
    /\ ret' = <<extract_color_size(arg)>>
    /\ pc' = "returned"
    /\ UNCHANGED arg
    /\ PipelineUnchanged

NextExtract == CallExtract

SpecExtract == InitExtract /\ [][NextExtract]_vars

\* C5: fewer than two tokens give ("", ""); a size-shaped last token gives
\* (second-to-last token, last token), size-shaped covering the letter sizes
\* and a one-to-two-digit number with an optional '.', '/' or '-' sub-size,
\* so that "Pants - Blue - 32/34" gives ("Blue", "32/34"); any other last
\* token gives (last token, "").
C5_ExtractAsClaimed ==
    pc = "returned" =>
        /\ \A d \in Pieces, c \in Pieces \ {" "}, z \in {"xl", "34", "7.5", "32/34"} :
              arg = Str(d \o " - " \o c \o " - " \o z) => ret[1] = <<c, z>>
        /\ LET parts == SplitParts(Strip(PyStr(arg)), "")
           IN  /\ Len(parts) < 2 => ret[1] = <<"", "">>
               /\ (Len(parts) >= 2 /\ ~IsSizeToken(parts[Len(parts)])) =>
                     ret[1] = <<parts[Len(parts)], "">>

(***************************************************************************)
(* CATEGORY MATCH: _words, _best_keyword_match_value                       *)
(***************************************************************************)
AlnumChars == DigitChars \cup {Char(LowerChars, k) : k \in 1..26}

\* set(re.findall(r"[a-z0-9]+", s)): the maximal runs of [a-z0-9] of s
RECURSIVE FindAllAlnum(_, _)
FindAllAlnum(s, cur) ==
    IF s = "" THEN (IF cur = "" THEN {} ELSE {cur})
    ELSE IF Char(s, 1) \in AlnumChars
         THEN FindAllAlnum(SubSeq(s, 2, Len(s)), cur \o Char(s, 1))
         ELSE (IF cur = "" THEN {} ELSE {cur}) \cup FindAllAlnum(SubSeq(s, 2, Len(s)), "")

words(s) == FindAllAlnum(Lower(s), "")

\* A lookup frame as _read_2col_sheet returns it: None, or the rows
\* [key, value] of a two-column DataFrame in sheet order.
None == [t |-> "none"]
Frame(rows) == [t |-> "frame", rows |-> rows]
IsNone(x) == x.t = "none"

\* "len(kw_words) >= best_len": a later row of equal word count would win.
IsAtLeastAsSpecific(n, best_len) == n >= best_len

\* "len(kw_words) > best_len"
IsMoreSpecific(n, best_len) == n > best_len

\* The loop over keyword_value_df.iterrows() from row k on, with the running
\* best_value and best_len.
RECURSIVE MatchLoop(_, _, _, _, _)
MatchLoop(rows, k, desc_words, best_value, best_len) ==
    IF k > Len(rows) THEN best_value
    ELSE LET kw_words == words(Strip(rows[k].key))
         IN  IF kw_words # {} /\ kw_words \subseteq desc_words
                /\ IsMoreSpecific(Cardinality(kw_words), best_len)
             THEN MatchLoop(rows, k + 1, desc_words, Strip(rows[k].value), Cardinality(kw_words))
             ELSE MatchLoop(rows, k + 1, desc_words, best_value, best_len)

best_keyword_match_value(description, keyword_value_df) ==
    IF IsNone(keyword_value_df) THEN ""
    ELSE MatchLoop(keyword_value_df.rows, 1, words(PyStr(description)), "", 0)

MaxTableRows == 3

MatchKeys == {"shoe", "Running Shoe", "shoe-running", "men", "men's shoe", "boot", "--"}

MatchDescriptions == {NaN, Str("Men's running shoe size 10"), Str("Shoe"), Str("nan boot")}

\* The value of the row at position k names the position.
ValueAt(k) == "cat" \o Char("123456789", k)

RECURSIVE KeySeqs(_)
KeySeqs(n) ==
    IF n = 0 THEN {<<>>}
    ELSE KeySeqs(n - 1) \cup {Append(q, key) : q \in KeySeqs(n - 1), key \in MatchKeys}

MatchTables ==
    {None} \cup
    {Frame([k \in 1..Len(q) |-> [key |-> q[k], value |-> ValueAt(k)]]) : q \in KeySeqs(MaxTableRows)}

InitMatch ==
    /\ pc = "call"
    /\ arg \in {<<d, tb>> : d \in MatchDescriptions, tb \in MatchTables}
    /\ ret = <<>>
    /\ PipelineIdle

CallMatch ==
    /\ pc = "call"
    /\ ret' = <<best_keyword_match_value(arg[1], arg[2])>>
    /\ pc' = "returned"
    /\ UNCHANGED arg
    /\ PipelineUnchanged

NextMatch == CallMatch

SpecMatch == InitMatch /\ [][NextMatch]_vars

\* The rows whose keyword word-set is non-empty and within the description's.
Candidates(description, rows) ==
    {k \in 1..Len(rows) :
        /\ words(rows[k].key) # {}
        /\ words(rows[k].key) \subseteq words(PyStr(description))}

WordCount(rows, k) == Cardinality(words(rows[k].key))

\* C4: the result is the value of the candidate row with the greatest word
\* count, the earliest such row in table order when several share it, and
\* the empty string when no row is a candidate or the table is absent.
C4_MostSpecificFirstSeen ==
    pc = "returned" =>
        IF IsNone(arg[2]) THEN ret[1] = ""
        ELSE LET rows == arg[2].rows
                 cands == Candidates(arg[1], rows)
             IN  IF cands = {} THEN ret[1] = ""
                 ELSE \E k \in cands :
                        /\ ret[1] = rows[k].value
                        /\ \A j \in cands :
                              /\ WordCount(rows, j) <= WordCount(rows, k)
                              /\ WordCount(rows, j) = WordCount(rows, k) => k <= j

\* Two candidate rows of two words each, the second one later in the table:
\* the earlier one's value was returned.
C4_Witness ==
    /\ pc = "returned"
    /\ ~IsNone(arg[2])
    /\ \E j, k \in Candidates(arg[1], arg[2].rows) :
          /\ j < k
          /\ WordCount(arg[2].rows, j) = 2
          /\ WordCount(arg[2].rows, k) = 2
          /\ ret[1] = arg[2].rows[j].value

(***************************************************************************)
(* HELP DATA: _read_2col_sheet, _build_map, _standardize                   *)
(*                                                                         *)
(* The help workbook is Corrupt (read_excel raises on its bytes) or a Book *)
(* of sheets by name; a sheet is what read_excel(header=None, dtype=str)   *)
(* makes of it: ncols columns and rows of ncols cells each.                *)
(***************************************************************************)
Corrupt == [t |-> "corrupt"]
Book(sheets) == [t |-> "book", sheets |-> sheets]
Sheet(ncols, rows) == [ncols |-> ncols, rows |-> rows]

\* pd.read_excel(io.BytesIO(help_bytes), sheet_name=sheet_name, ...) raises
ReadExcelRaises(help_bytes, sheet_name) ==
    help_bytes.t = "corrupt" \/ sheet_name \notin DOMAIN help_bytes.sheets

\* df.dropna(how="all")
DropNaAll(rows) == SelectSeq(rows, LAMBDA r : \E j \in 1..Len(r) : ~IsNaN(r[j]))

\* .astype(str).str.strip() of a cell
AsStrStripped(x) == Strip(PyStr(x))

read_2col_sheet(help_bytes, sheet_name) ==
    IF ReadExcelRaises(help_bytes, sheet_name) THEN None
    ELSE LET raw == help_bytes.sheets[sheet_name]
             rows == DropNaAll(raw.rows)
         IN  IF raw.ncols < 2 THEN None
             ELSE Frame([k \in 1..Len(rows) |->
                          [key |-> AsStrStripped(rows[k][1]), value |-> AsStrStripped(rows[k][2])]])

EmptyDict == [k \in {} |-> ""]

\* dict.setdefault-like construction: the first row of a key would win.
DictKeepFirst(m, k, v) == IF k \in DOMAIN m THEN m ELSE [x \in DOMAIN m \cup {k} |-> IF x = k THEN v ELSE m[x]]

\* One "key: value" of the dict comprehension: a later equal key replaces
\* the value stored for it.
DictPut(m, k, v) == [x \in DOMAIN m \cup {k} |-> IF x = k THEN v ELSE m[x]]

\* {str(k).strip().lower(): str(v).strip() for k, v in zip(df["key"], df["value"])}
RECURSIVE DictComprehension(_, _, _)
DictComprehension(rows, k, m) ==
    IF k > Len(rows) THEN m
    ELSE DictComprehension(rows, k + 1, DictPut(m, Lower(Strip(rows[k].key)), Strip(rows[k].value)))

build_map(help_bytes, sheet_name) ==
    LET frame == read_2col_sheet(help_bytes, sheet_name)
    IN  IF IsNone(frame) THEN EmptyDict
        ELSE DictComprehension(frame.rows, 1, EmptyDict)

\* mapping.get(key, ""): an unmapped value would be lost, not passed through.
DictGetOrBlank(m, k, default) == IF k \in DOMAIN m THEN m[k] ELSE ""

\* mapping.get(key, default)
DictGet(m, k, default) == IF k \in DOMAIN m THEN m[k] ELSE default

standardize(val, mapping) ==
    IF IsMissing(val) THEN ""
    ELSE LET s == Strip(PyStr(val))
         IN  IF s = "" THEN "" ELSE DictGet(mapping, Lower(s), s)

MaxSheetRows == 3

MapKeyCells == {Str("Red"), Str(" red"), Str("RED "), Str("blue"), NaN}

StandardizeInputs == {NaN, Str(""), Str(" Red "), Str("BLUE"), Str("green")}

\* Row k of a sheet: a key cell and a value cell naming the position, or an
\* entirely empty row.
SheetRowsAt(k) == {<<NaN, NaN>>} \cup {<<key, Str(ValueAt(k) \o " ")>> : key \in MapKeyCells}

RECURSIVE RawRowSeqs(_)
RawRowSeqs(n) ==
    IF n = 0 THEN {<<>>}
    ELSE RawRowSeqs(n - 1) \cup
         {Append(q, r) : q \in {p \in RawRowSeqs(n - 1) : Len(p) = n - 1}, r \in SheetRowsAt(n)}

MapSheetName == "Color Standardization"

MapWorkbooks ==
    {Corrupt, Book(EmptyDict)} \cup
    {Book([n \in {MapSheetName} |-> Sheet(2, q)]) : q \in RawRowSeqs(MaxSheetRows)} \cup
    {Book([n \in {MapSheetName} |-> Sheet(3, [k \in 1..Len(q) |-> Append(q[k], Str("extra"))])]) :
        q \in RawRowSeqs(1)} \cup
    {Book([n \in {MapSheetName} |-> Sheet(1, [k \in 1..Len(q) |-> <<q[k][1]>>])]) : q \in RawRowSeqs(1)}

InitMap ==
    /\ pc = "call"
    /\ arg \in {<<h, MapSheetName, v>> : h \in MapWorkbooks, v \in StandardizeInputs}
    /\ ret = <<>>
    /\ PipelineIdle

CallBuildMap ==
    /\ pc = "call"
    /\ ret' = <<build_map(arg[1], arg[2])>>
    /\ pc' = "built"
    /\ UNCHANGED arg
    /\ PipelineUnchanged

CallStandardize ==
    /\ pc = "built"
    /\ ret' = Append(ret, standardize(arg[3], ret[1]))
    /\ pc' = "returned"
    /\ UNCHANGED arg
    /\ PipelineUnchanged

NextMap == CallBuildMap \/ CallStandardize

SpecMap == InitMap /\ [][NextMap]_vars

\* The rows of the loaded sheet whose key equals k after trimming and
\* lowercasing.
RowsOfKey(rows, k) == {j \in 1..Len(rows) : Lower(Strip(rows[j].key)) = k}

Min(S) == CHOOSE x \in S : \A y \in S : x <= y
Max(S) == CHOOSE x \in S : \A y \in S : x >= y

LoadedRows(a) == read_2col_sheet(a[1], a[2]).rows

\* C9 as stated: the map holds, for every key, the value of the FIRST sheet
\* row with that key, and _standardize returns it.
C9_FirstSeenWins ==
    (pc \in {"built", "returned"} /\ ~IsNone(read_2col_sheet(arg[1], arg[2]))) =>
        \A k \in DOMAIN ret[1] :
            ret[1][k] = Strip(LoadedRows(arg)[Min(RowsOfKey(LoadedRows(arg), k))].value)

\* C9 amended: the map holds exactly the trimmed lowercased keys of the
\* sheet and, for every key, the value of the LAST sheet row with that key;
\* _standardize returns that value for a non-blank input whose trimmed
\* lowercased form is a key.
C9_LastSeenWins ==
    (pc \in {"built", "returned"} /\ ~IsNone(read_2col_sheet(arg[1], arg[2]))) =>
        LET rows == LoadedRows(arg)
        IN  /\ DOMAIN ret[1] = {Lower(Strip(rows[j].key)) : j \in 1..Len(rows)}
            /\ \A k \in DOMAIN ret[1] :
                  ret[1][k] = Strip(rows[Max(RowsOfKey(rows, k))].value)
            /\ (pc = "returned" /\ ~IsNaN(arg[3]) /\ Lower(Strip(arg[3].s)) \in DOMAIN ret[1]) =>
                  ret[2] = Strip(rows[Max(RowsOfKey(rows, Lower(Strip(arg[3].s))))].value)

\* A sheet with two rows of the same key after trimming and lowercasing was
\* loaded and a value with that key standardized.
C9_Witness ==
    /\ pc = "returned"
    /\ ~IsNone(read_2col_sheet(arg[1], arg[2]))
    /\ ~IsNaN(arg[3])
    /\ Cardinality(RowsOfKey(LoadedRows(arg), Lower(Strip(arg[3].s)))) >= 2
    /\ ret[2] # Strip(LoadedRows(arg)[Min(RowsOfKey(LoadedRows(arg), Lower(Strip(arg[3].s))))].value)

(***************************************************************************)
(* MAIN: run_transform                                                     *)
(*                                                                         *)
(* The supplier workbook is Corrupt or a table: the set of its header      *)
(* names and its rows, each row a function from the header names to cells. *)
(* df is the DataFrame of the run: a sequence of rows that gains columns   *)
(* as the code assigns them; dataframe index i is position i + 1.          *)
(***************************************************************************)
Table(columns, rows) == [t |-> "table", columns |-> columns, rows |-> rows]

\* The optional Color column listed among the required ones.
required_with_color ==
    <<"Product", "Description", "Qty", "Cad MSRP", "UPC", "Origin", "HTS Code", "Color">>

required == <<"Product", "Description", "Qty", "Cad MSRP", "UPC", "Origin", "HTS Code">>

\* [c for c in required if c not in df.columns]
missing(columns) == SelectSeq(required, LAMBDA c : c \notin columns)

\* df[name] = value for one row
WithCol(row, name, value) == [c \in DOMAIN row \cup {name} |-> IF c = name THEN value ELSE row[c]]

\* df[name] = f(row) for every row
Assign(frame, name, F(_)) == [k \in 1..Len(frame) |-> WithCol(frame[k], name, F(frame[k]))]

RECURSIVE DigitsToInt(_)
DigitsToInt(s) ==
    IF s = "" THEN 0
    ELSE DigitsToInt(SubSeq(s, 1, Len(s) - 1)) * 10
         + (CHOOSE d \in 0..9 : Char("0123456789", d + 1) = Char(s, Len(s)))

\* str.replace(old, "") for a one-character old
RECURSIVE RemoveChar(_, _)
RemoveChar(s, c) ==
    IF s = "" THEN ""
    ELSE (IF Char(s, 1) = c THEN "" ELSE Char(s, 1)) \o RemoveChar(SubSeq(s, 2, Len(s)), c)

\* Position of the first '.' of s, 0 when there is none
DotAt(s) == IF \E k \in 1..Len(s) : Char(s, k) = "." THEN CHOOSE k \in 1..Len(s) : Char(s, k) = "." /\ \A j \in 1..(k - 1) : Char(s, j) # "." ELSE 0

\* "5" -> "50", "" -> "00": the decimals as hundredths
ZFillRight(frac) == IF Len(frac) = 0 THEN "00" ELSE IF Len(frac) = 1 THEN frac \o "0" ELSE frac

\* pd.to_numeric(..., errors="coerce") of one text: a missing cell stays
\* missing; digits with at most two decimals are the number (in cents);
\* "inf" is the float infinity; a text that is no number is coerced to NaN.
\* (Texts with exponents, signs, more decimals or padding are numbers too
\* for pandas and are not among the modelled inputs.)
to_numeric(s) ==
    LET d == DotAt(s)
        whole == IF d = 0 THEN s ELSE SubSeq(s, 1, d - 1)
        frac == IF d = 0 THEN "" ELSE SubSeq(s, d + 1, Len(s))
    IN  IF Lower(s) \in {"inf", "infinity"} THEN Inf
        ELSE IF MatchDigits(whole) /\ AllDigits(frac) /\ Len(frac) <= 2
             THEN Num(DigitsToInt(whole) * 100 + DigitsToInt(ZFillRight(frac)))
             ELSE NaN

\* df["Cad MSRP"].str.replace("$", "").str.replace(",", "") then to_numeric
CadMsrpNum(cell) ==
    IF IsNaN(cell) THEN NaN ELSE to_numeric(RemoveChar(RemoveChar(cell.s, "$"), ","))

\* "(r.get(col) or "").strip()": a float nan is truthy and has no strip().
StripRaises(cell) == IsNaN(cell)

OrEmptyStrip(cell) == Strip(cell.s)

SheetNames ==
    [color |-> "Color Standardization", size |-> "Size Standardization",
     country |-> "Country Abbreviations", google |-> "Google Product Category",
     shopify |-> "Shopify Product Category"]

Running == [status |-> "running"]
\* An exception leaving run_transform: its type, the source line that raises
\* it and, for the ValueError, the column names of its message.
Raised(exc, line, msg) == [status |-> "raised", exc |-> exc, line |-> line, msg |-> msg]
Returned(out, w) == [status |-> "returned", out |-> out, warnings_df |-> w]

(***************************************************************************)
(* Inputs of run_transform                                                 *)
(***************************************************************************)
MaxRows == 2

AllColumns ==
    {"Product", "Description", "Qty", "Cad MSRP", "UPC", "Origin", "HTS Code", "Color", "Size"}

\* A row with every cell filled and known to the help sheets.
GoodRow ==
    [c \in AllColumns |->
        CASE c = "Product" -> Str("P1")
          [] c = "Description" -> Str("Jacket - Blue - XL")
          [] c = "Qty" -> Str("3")
          [] c = "Cad MSRP" -> Str("$47.20")
          [] c = "UPC" -> Str("12345.0")
          [] c = "Origin" -> Str(" ca")
          [] c = "HTS Code" -> Str("6110")
          [] c = "Color" -> Str("Rouge")
          [] c = "Size" -> Str("m ")]

\* row with the cells of the columns in DOMAIN changes replaced
Except(row, changes) == [c \in AllColumns |-> IF c \in DOMAIN changes THEN changes[c] ELSE row[c]]

\* A row of poor data in text cells: blank Color, Size, HTS Code, an empty
\* UPC and Origin, a price that is no number.
PoorRow ==
    Except(GoodRow,
        [c \in {"Product", "Description", "Cad MSRP", "UPC", "Origin", "HTS Code", "Color", "Size"} |->
            CASE c = "Product" -> Str("P2")
              [] c = "Description" -> Str("Pants")
              [] c = "Cad MSRP" -> Str("abc")
              [] c = "UPC" -> NaN
              [] c = "Origin" -> NaN
              [] c = "HTS Code" -> Str(" ")
              [] c = "Color" -> Str(" ")
              [] c = "Size" -> Str("")])

SupplierRows ==
    { GoodRow,
      PoorRow,
      Except(GoodRow, [c \in {"Color"} |-> NaN]),
      Except(GoodRow, [c \in {"Size"} |-> NaN]),
      Except(GoodRow, [c \in {"HTS Code"} |-> NaN]),
      Except(GoodRow, [c \in {"Cad MSRP", "Color", "Size"} |->
                          CASE c = "Cad MSRP" -> Str("4.50")
                            [] c = "Color" -> Str(" ")
                            [] c = "Size" -> Str("")]),
      Except(GoodRow, [c \in {"Cad MSRP"} |-> Str("inf")]),
      Except(GoodRow, [c \in {"Product", "Description", "Cad MSRP", "UPC", "Color"} |->
                          CASE c = "Product" -> Str("P3")
                            [] c = "Description" -> Str("Shoe")
                            [] c = "Cad MSRP" -> NaN
                            [] c = "UPC" -> Str("0123456789012")
                            [] c = "Color" -> Str("navy")]) }

RECURSIVE RowSeqs(_)
RowSeqs(n) ==
    IF n = 0 THEN {<<>>}
    ELSE RowSeqs(n - 1) \cup {Append(q, r) : q \in RowSeqs(n - 1), r \in SupplierRows}

\* The columns the supplier sheet may lack
AbsentChoices ==
    { {}, {"Color"}, {"Size"}, {"Color", "Size"},
      {"UPC"}, {"HTS Code", "UPC", "Size"}, {"Product", "Qty", "Origin"} }

Restrict(row, columns) == [c \in columns |-> row[c]]

SupplierWorkbooks ==
    {Corrupt} \cup
    {Table(AllColumns \ a, [k \in 1..Len(q) |-> Restrict(q[k], AllColumns \ a)]) :
        a \in AbsentChoices, q \in RowSeqs(MaxRows)}

Pair(k, v) == <<Str(k), Str(v)>>

\* A help sheet as it should be
GoodSheet(which) ==
    CASE which = "color" -> Sheet(2, <<Pair("rouge ", "Red"), Pair("Navy", " "), <<NaN, NaN>>>>)
      [] which = "size" -> Sheet(2, <<Pair("m", "M"), Pair("XL", "XL")>>)
      [] which = "country" -> Sheet(3, <<<<Str("CA"), Str("Canada"), NaN>>>>)
      [] which = "google" -> Sheet(2, <<Pair("jacket", "Apparel > Coats"), Pair("blue jacket", "Apparel > Blue")>>)
      [] which = "shopify" -> Sheet(2, <<Pair("Jacket", "Coats & Jackets"), Pair("shoe", "Shoes")>>)

\* A help sheet with fewer than two columns
NarrowSheet(which) ==
    IF which \in {"size", "shopify"} THEN Sheet(1, <<<<Str("m")>>>>) ELSE Sheet(0, <<>>)

SheetKinds == {"color", "size", "country", "google", "shopify"}

\* The workbooks in which the sheets of `good` are as they should be, those
\* of `narrow` have fewer than two columns and the others do not exist.
HelpBook(good, narrow) ==
    Book([n \in {SheetNames[w] : w \in good \cup narrow} |->
            LET w == CHOOSE w \in good \cup narrow : SheetNames[w] = n
            IN  IF w \in good THEN GoodSheet(w) ELSE NarrowSheet(w)])

HelpWorkbooks ==
    {Corrupt} \cup
    {HelpBook(good, (SheetKinds \ good) \cap {"size", "country"}) : good \in SUBSET SheetKinds}

(***************************************************************************)
(* The run, one action per block of run_transform                          *)
(***************************************************************************)
Init ==
    /\ pc = "start"
    /\ supplier \in SupplierWorkbooks
    /\ help \in HelpWorkbooks
    /\ lookups = Idle
    /\ df = Idle
    /\ idx = 0
    /\ warnings = <<>>
    /\ outcome = Running
    /\ arg = <<>>
    /\ ret = <<>>

\* df = pd.read_excel(supplier...); warnings = []; the five help lookups
ReadInputs ==
    /\ pc = "start"
    /\ IF supplier = Corrupt
       THEN /\ outcome' = Raised("read_excel", 153, <<>>)
            /\ pc' = "raised"
            /\ UNCHANGED <<df, lookups>>
       ELSE /\ df' = supplier.rows
            /\ lookups' = [color_map |-> build_map(help, SheetNames.color),
                           size_map |-> build_map(help, SheetNames.size),
                           country_map |-> build_map(help, SheetNames.country),
                           google_cat |-> read_2col_sheet(help, SheetNames.google),
                           shopify_cat |-> read_2col_sheet(help, SheetNames.shopify)]
            /\ pc' = "check"
            /\ UNCHANGED outcome
    /\ UNCHANGED <<arg, ret, supplier, help, idx, warnings>>

\* if "Color" not in df.columns: df["Color"] = ""
DefaultColumn(frame, name) ==
    IF name \in supplier.columns THEN frame ELSE Assign(frame, name, LAMBDA r : Str(""))

\* The required-columns check and the Color/Size defaults
CheckColumns ==
    /\ pc = "check"
    /\ IF missing(supplier.columns) # <<>>
       THEN /\ outcome' = Raised("ValueError", 169, missing(supplier.columns))
            /\ pc' = "raised"
            /\ UNCHANGED df
       ELSE /\ df' = DefaultColumn(DefaultColumn(df, "Color"), "Size")
            /\ pc' = "numeric"
            /\ UNCHANGED outcome
    /\ UNCHANGED <<arg, ret, supplier, help, lookups, idx, warnings>>

\* df["Cad MSRP_num"] = pd.to_numeric(...)
ToNumeric ==
    /\ pc = "numeric"
    /\ df' = Assign(df, "Cad MSRP_num", LAMBDA r : CadMsrpNum(r["Cad MSRP"]))
    /\ pc' = "fallback"
    /\ idx' = 0
    /\ UNCHANGED <<arg, ret, supplier, help, lookups, warnings, outcome>>

\* The body of the fallback loop for the row r
FallbackOf(r) ==
    LET color == OrEmptyStrip(r["Color"])
        size == OrEmptyStrip(r["Size"])
        fb == extract_color_size(r["Description"])
        r1 == IF color = "" /\ fb[1] # "" THEN WithCol(r, "Color", Str(fb[1])) ELSE r
        r2 == IF size = "" /\ fb[2] # "" THEN WithCol(r1, "Size", Str(fb[2])) ELSE r1
    IN  IF color = "" \/ size = "" THEN r2 ELSE r

\* One iteration of "for i, r in df.iterrows()" of the fallback loop
FallbackRow ==
    /\ pc = "fallback"
    /\ idx < Len(df)
    /\ LET r == df[idx + 1]
       IN  IF StripRaises(r["Color"]) \/ StripRaises(r["Size"])
           THEN /\ outcome' = Raised("AttributeError", IF StripRaises(r["Color"]) THEN 182 ELSE 183, <<>>)
                /\ pc' = "raised"
                /\ UNCHANGED <<df, idx>>
           ELSE /\ df' = [df EXCEPT ![idx + 1] = FallbackOf(r)]
                /\ idx' = idx + 1
                /\ UNCHANGED <<pc, outcome>>
    /\ UNCHANGED <<arg, ret, supplier, help, lookups, warnings>>

\* After the loop: Color, Size, Origin through their maps
Standardize ==
    /\ pc = "fallback"
    /\ idx = Len(df)
    /\ df' = Assign(Assign(Assign(df,
                "Color", LAMBDA r : Str(standardize(r["Color"], lookups.color_map))),
                "Size", LAMBDA r : Str(standardize(r["Size"], lookups.size_map))),
                "Origin", LAMBDA r : Str(standardize(r["Origin"], lookups.country_map)))
    /\ pc' = "derive"
    /\ UNCHANGED <<arg, ret, supplier, help, lookups, idx, warnings, outcome>>

\* .fillna("").astype(str).str.strip()
FillNaStrip(cell) == IF IsNaN(cell) THEN "" ELSE Strip(cell.s)

\* (Description + " " + Color).str.strip()
TitleOf(r) == Strip(FillNaStrip(r["Description"]) \o " " \o FillNaStrip(r["Color"]))

\* Title, Variant Price, Variant Barcode and the two category names.  (The
\* Handle, made by the slugify library from the vendor, Description and
\* Color, is a total function of them and is left out of the rows.)
Derive ==
    /\ pc = "derive"
    /\ IF \E k \in 1..Len(df) : round_to_nearest_9_99(df[k]["Cad MSRP_num"]).t = "raise"
       THEN /\ outcome' = Raised("OverflowError", 203, <<>>)
            /\ pc' = "raised"
            /\ UNCHANGED <<df, idx>>
       ELSE /\ df' = Assign(Assign(Assign(Assign(Assign(df,
                        "Title", LAMBDA r : Str(TitleOf(r))),
                        "Variant Price", LAMBDA r : round_to_nearest_9_99(r["Cad MSRP_num"])),
                        "Variant Barcode", LAMBDA r : Str(clean_barcode_keep_leading_zeros(r["UPC"]))),
                        "Google Category Name",
                            LAMBDA r : Str(best_keyword_match_value(r["Description"], lookups.google_cat))),
                        "Shopify Category Name",
                            LAMBDA r : Str(best_keyword_match_value(r["Description"], lookups.shopify_cat)))
            /\ pc' = "warn"
            /\ idx' = 0
            /\ UNCHANGED outcome
    /\ UNCHANGED <<arg, ret, supplier, help, lookups, warnings>>

\* spreadsheet row = dataframe index + 1: the header row forgotten.
SpreadsheetRowNoHeader(i) == i + 1

\* "row": i + 2
SpreadsheetRow(i) == i + 2

\* The issue texts, with the accented letter of the source in ASCII
Issues ==
    <<"UPC/Barcode manquant",
      "HTS Code manquant",
      "Color vide (apres fallback/standardisation)",
      "Size vide (apres fallback/standardisation)",
      "Aucun match Shopify Product Category (nom) via Description",
      "Aucun match Google Product Category (nom) via Description">>

WarnColumns ==
    <<"Variant Barcode", "HTS Code", "Color", "Size", "Shopify Category Name", "Google Category Name">>

Warning(i, n) == [row |-> SpreadsheetRow(i), issue |-> Issues[n]]

\* The warnings of the row r of dataframe index i for the checks n..6, in
\* the order of the six "if" statements
RECURSIVE WarningsFrom(_, _, _)
WarningsFrom(r, i, n) ==
    IF n > 6 THEN <<>>
    ELSE (IF OrEmptyStrip(r[WarnColumns[n]]) = "" THEN <<Warning(i, n)>> ELSE <<>>)
         \o WarningsFrom(r, i, n + 1)

\* One iteration of "for i, r in df.iterrows()" of the warnings loop; the
\* barcode warning is appended before the HTS Code check can raise.
WarnRow ==
    /\ pc = "warn"
    /\ idx < Len(df)
    /\ LET r == df[idx + 1]
       IN  IF StripRaises(r["HTS Code"])
           THEN /\ warnings' = warnings \o
                       (IF OrEmptyStrip(r["Variant Barcode"]) = "" THEN <<Warning(idx, 1)>> ELSE <<>>)
                /\ outcome' = Raised("AttributeError", 216, <<>>)
                /\ pc' = "raised"
                /\ UNCHANGED idx
           ELSE /\ warnings' = warnings \o WarningsFrom(r, idx, 1)
                /\ idx' = idx + 1
                /\ UNCHANGED <<pc, outcome>>
    /\ UNCHANGED <<arg, ret, supplier, help, lookups, df>>

vendor_name == "Fournisseur ABC"

\* One row of the "shopify_import" sheet (without its Handle)
OutputRow(r) ==
    [Command |-> "NEW",
     Title |-> r["Title"].s,
     Body |-> "",
     Vendor |-> vendor_name,
     CategoryID |-> r["Shopify Category Name"].s,
     Option1Name |-> "Size",
     Option1Value |-> PyStr(r["Size"]),
     Option2Name |-> "Color",
     Option2Value |-> PyStr(r["Color"]),
     VariantPrice |-> r["Variant Price"],
     VariantSKU |-> PyStr(r["Product"]),
     VariantBarcode |-> r["Variant Barcode"].s,
     VariantInventoryQty |-> 0,
     CountryOfOrigin |-> PyStr(r["Origin"]),
     HSCode |-> PyStr(r["HTS Code"]),
     GoogleCategory |-> r["Google Category Name"].s]

\* After the warnings loop: the output table, the warnings table, the export
Export ==
    /\ pc = "warn"
    /\ idx = Len(df)
    /\ outcome' = Returned([k \in 1..Len(df) |-> OutputRow(df[k])], warnings)
    /\ pc' = "done"
    /\ UNCHANGED <<arg, ret, supplier, help, lookups, df, idx, warnings>>

Next ==
    \/ ReadInputs
    \/ CheckColumns
    \/ ToNumeric
    \/ FallbackRow
    \/ Standardize
    \/ Derive
    \/ WarnRow
    \/ Export

Spec == Init /\ [][Next]_vars

(***************************************************************************)
(* Properties of run_transform                                             *)
(***************************************************************************)
IsTable == supplier.t = "table"

\* The seven columns the supplier sheet must have
SevenRequired == {"Product", "Description", "Qty", "Cad MSRP", "UPC", "Origin", "HTS Code"}

HasAllRequired == IsTable /\ SevenRequired \subseteq supplier.columns

Finished == pc = "done"

Out == outcome.out

\* C1: a supplier table with all seven required columns is transformed
\* without error into exactly one output row per supplier row, in the same
\* order, whatever its cells hold (empty or unparseable Color, Size,
\* HTS Code, UPC, Description or Cad MSRP included).
C1_OneOutputRowPerSupplierRow ==
    HasAllRequired =>
        /\ pc # "raised"
        /\ Finished =>
              /\ Len(Out) = Len(supplier.rows)
              /\ \A k \in 1..Len(Out) : Out[k].VariantSKU = PyStr(supplier.rows[k]["Product"])

\* The required columns the supplier sheet lacks
AbsentRequired == SevenRequired \ supplier.columns

\* C2: with a required column absent the run ends in the ValueError whose
\* message lists exactly the absent required columns and nothing is
\* returned (no output rows, no warnings); an absent optional Color or Size
\* column never raises, neither at the column check nor where the column is
\* read.
C2_MissingRequiredIsFatal ==
    (IsTable /\ pc \notin {"start", "check"}) =>
        /\ AbsentRequired # {} =>
              /\ pc = "raised"
              /\ outcome.status = "raised"
              /\ outcome.exc = "ValueError"
              /\ {outcome.msg[k] : k \in 1..Len(outcome.msg)} = AbsentRequired
              /\ Len(outcome.msg) = Cardinality(AbsentRequired)
              /\ warnings = <<>>
        /\ AbsentRequired = {} =>
              /\ ~(pc = "raised" /\ outcome.line = 169)
              /\ "Color" \notin supplier.columns => ~(pc = "raised" /\ outcome.line = 182)
              /\ "Size" \notin supplier.columns => ~(pc = "raised" /\ outcome.line = 183)

\* A sheet lacking two required columns and the optional Size was refused;
\* a sheet lacking only Color and Size was transformed.
C2_Witness ==
    /\ pc = "raised"
    /\ IsTable
    /\ supplier.columns = AllColumns \ {"HTS Code", "UPC", "Size"}
    /\ outcome.msg = <<"UPC", "HTS Code">>
    /\ Len(supplier.rows) = 2

C2_OptionalAbsentReached ==
    /\ Finished
    /\ supplier.columns = AllColumns \ {"Color", "Size"}
    /\ Len(Out) = 2

\* The six conditions of an output row, in the order of the warnings
Holds(n, o) ==
    CASE n = 1 -> Strip(o.VariantBarcode) = ""
      [] n = 2 -> Strip(o.HSCode) = ""
      [] n = 3 -> Strip(o.Option2Value) = ""
      [] n = 4 -> Strip(o.Option1Value) = ""
      [] n = 5 -> Strip(o.CategoryID) = ""
      [] n = 6 -> Strip(o.GoogleCategory) = ""

IssueIndex(w) == CHOOSE n \in 1..6 : Issues[n] = w.issue

\* C3: after a successful run the warnings hold, for the row of dataframe
\* index i, exactly one warning with row = i + 2 for each of the six
\* conditions that holds for it and none for a condition that does not, and
\* they are ordered by row and, within a row, by condition.
C3_WarningsExact ==
    Finished =>
        LET w == outcome.warnings_df
        IN  /\ \A a \in 1..Len(w) :
                  /\ w[a].row \in 2..(Len(Out) + 1)
                  /\ \E n \in 1..6 : Issues[n] = w[a].issue
            /\ \A i \in 0..(Len(Out) - 1), n \in 1..6 :
                  Cardinality({a \in 1..Len(w) : w[a].row = i + 2 /\ w[a].issue = Issues[n]})
                    = IF Holds(n, Out[i + 1]) THEN 1 ELSE 0
            /\ \A a, b \in 1..Len(w) :
                  a < b => \/ w[a].row < w[b].row
                           \/ w[a].row = w[b].row /\ IssueIndex(w[a]) < IssueIndex(w[b])

\* A run of two rows ended with all six warnings for the second row (row 3)
\* and none for the first.
C3_Witness ==
    /\ Finished
    /\ Len(Out) = 2
    /\ Len(outcome.warnings_df) = 6
    /\ \A a \in 1..6 : outcome.warnings_df[a].row = 3

\* The help sheet of this kind cannot be loaded: the workbook is unreadable,
\* the sheet does not exist, or it has fewer than two columns.
Unavailable(which) ==
    \/ help.t = "corrupt"
    \/ SheetNames[which] \notin DOMAIN help.sheets
    \/ help.sheets[SheetNames[which]].ncols < 2

\* The supplier data alone makes the run fail, whatever the help workbook.
SupplierFails ==
    \/ ~HasAllRequired
    \/ \E k \in 1..Len(supplier.rows) :
          LET r == supplier.rows[k]
          IN  \/ "Color" \in supplier.columns /\ IsNaN(r["Color"])
              \/ "Size" \in supplier.columns /\ IsNaN(r["Size"])
              \/ IsNaN(r["HTS Code"])
              \/ CadMsrpNum(r["Cad MSRP"]) = Inf

\* The cell of an optional column, "" when the sheet has no such column
CellOrDefault(r, c) == IF c \in supplier.columns THEN r[c] ELSE Str("")

\* The trimmed value of the Color (n = 1) or Size (n = 2) of a supplier row
\* before standardization: its own text, or the fallback from Description.
TrimmedOriginal(r, c, n) ==
    IF Strip(CellOrDefault(r, c).s) # "" THEN Strip(CellOrDefault(r, c).s)
    ELSE extract_color_size(r["Description"])[n]

HasWarning(i, n) ==
    \E a \in 1..Len(outcome.warnings_df) :
        outcome.warnings_df[a] = [row |-> i + 2, issue |-> Issues[n]]

\* C8: a help sheet that cannot be loaded never fails the run (a run fails
\* only for its supplier data, and every other run has a next step until it
\* is done); with the
\* Color, Size or Country sheet unavailable every output row carries the
\* trimmed original value of that field, and with a category sheet
\* unavailable every row has an empty category name and its category
\* warning.
C8_MissingHelpSheetIsSoft ==
    /\ (pc = "raised") => SupplierFails
    /\ pc \in {"start", "check", "numeric", "fallback", "derive", "warn", "raised", "done"}
    /\ pc \in {"fallback", "warn"} => idx <= Len(df)
    /\ Finished =>
          \A k \in 1..Len(Out) :
              LET r == supplier.rows[k]
              IN  /\ Unavailable("color") => Out[k].Option2Value = TrimmedOriginal(r, "Color", 1)
                  /\ Unavailable("size") => Out[k].Option1Value = TrimmedOriginal(r, "Size", 2)
                  /\ Unavailable("country") =>
                        Out[k].CountryOfOrigin = IF IsNaN(r["Origin"]) THEN "" ELSE Strip(r["Origin"].s)
                  /\ Unavailable("shopify") => Out[k].CategoryID = "" /\ HasWarning(k - 1, 5)
                  /\ Unavailable("google") => Out[k].GoogleCategory = "" /\ HasWarning(k - 1, 6)

\* A run with no help sheet at all ended with two rows, the first keeping
\* its own Color ("Rouge", which the Color sheet would map to "Red").
C8_Witness ==
    /\ Finished
    /\ \A w \in SheetKinds : Unavailable(w)
    /\ help.t = "book"
    /\ Len(Out) = 2
    /\ Out[1].Option2Value = "Rouge"
    /\ Out[1].CountryOfOrigin = "ca"

\* C10: the Variant Price of an output row whose parsed Cad MSRP is a
\* non-negative number is never negative.
C10_PriceNeverNegative ==
    Finished =>
        \A k \in 1..Len(Out) :
            LET p == CadMsrpNum(supplier.rows[k]["Cad MSRP"])
            IN  (IsNum(p) /\ p.cents >= 0) =>
                    (IsNum(Out[k].VariantPrice) /\ Out[k].VariantPrice.cents >= 0)

====
